---- MODULE Spec2Model ----
(***************************************************************************)
(* The routes of the chatbot backend: the document ingestion route POST    *)
(* /upload, and POST /add and POST /ask around the same knowledge store, in *)
(* its two versions: src/server.js (multer memory storage, OCR fallback)   *)
(* and src/unnamed/part_000 (multer disk storage under uploads/, no OCR).  *)
(* A process runs one of the two programs; several requests may be in      *)
(* flight at once and interleave at the handlers' await points.            *)
(*                                                                         *)
(* Text is a sequence of one-character strings, so that trim(),            *)
(* toLowerCase() and path.extname() are computed and not assumed.          *)
(***************************************************************************)
EXTENDS Integers, Sequences, FiniteSets, TLC

\* Number of requests the model follows (each request id is used once).
MaxCalls == 2

Calls == 1..MaxCalls

\* The two programs of the repository.
Variants == {"server", "part_000"}

----------------------------------------------------------------------------
\* Strings

WhiteSpace == {" ", "\n"}

Min(S) == CHOOSE x \in S : \A y \in S : x <= y
Max(S) == CHOOSE x \in S : \A y \in S : x >= y

\* Trim forgotten: the text as it is.
TrimNothing(s) == s

\* String.prototype.trim: the text without leading and trailing white space.
Trim(s) ==
  LET NW == {i \in 1..Len(s) : s[i] \notin WhiteSpace}
  IN  IF NW = {} THEN << >> ELSE SubSeq(s, Min(NW), Max(NW))

\* !s for a string s: only the empty string is falsy.
Falsy(s) == s = << >>

LowerOf == [ch \in {"P", "D", "F", "O", "C", "X", "T"} |->
              CASE ch = "P" -> "p" [] ch = "D" -> "d" [] ch = "F" -> "f"
                [] ch = "O" -> "o" [] ch = "C" -> "c" [] ch = "X" -> "x"
                [] ch = "T" -> "t"]

\* toLowerCase forgotten: the extension compared as written.
ToLowerCaseNot(s) == s

\* String.prototype.toLowerCase
ToLowerCase(s) ==
  [i \in 1..Len(s) |-> IF s[i] \in DOMAIN LowerOf THEN LowerOf[s[i]] ELSE s[i]]

LastIndexOf(s, ch) ==
  LET I == {i \in 1..Len(s) : s[i] = ch}
  IN  IF I = {} THEN 0 ELSE Max(I)

\* path.extname: from the last "." of the last path portion to the end; empty
\* when there is no ".", or when the portion starts with its only ".".
ExtName(p) ==
  LET slash == LastIndexOf(p, "/")
      dot   == LastIndexOf(p, ".")
  IN  IF \/ dot = 0
         \/ dot < slash
         \/ dot = slash + 1
         \/ (dot = slash + 2 /\ p[slash + 1] = "." /\ dot = Len(p))
      THEN << >>
      ELSE SubSeq(p, dot, Len(p))

DotPdf  == <<".", "p", "d", "f">>
DotDocx == <<".", "d", "o", "c", "x">>

----------------------------------------------------------------------------
\* Inputs

\* Declared file names (req.file.originalname).
APdf      == <<"a", ".", "p", "d", "f">>
APdfUpper == <<"a", ".", "P", "D", "F">>
BDocx     == <<"b", ".", "d", "o", "c", "x">>
CTxt      == <<"c", ".", "t", "x", "t">>
NoExt     == <<"n", "o", "e", "x", "t">>
BDocxMixed == <<"b", ".", "D", "o", "c", "x">>
\* A name that is nothing but ".pdf": for path.extname it has no extension.
HiddenPdf == <<".", "p", "d", "f">>

FileNames == {APdf, APdfUpper, BDocx, CTxt, NoExt, BDocxMixed, HiddenPdf}

\* A request without a file part: req.file is undefined.
NoFile == << >>

Text(t)  == [kind |-> "text", text |-> t, message |-> ""]
Throw(m) == [kind |-> "throw", text |-> << >>, message |-> m]

\* An uploaded buffer, described by what each collaborator makes of it:
\* pdfParse(buffer), mammoth.extractRawText({buffer}) and
\* Tesseract.recognize(buffer) are functions of the buffer.
\* A PDF with a text layer.
TextPdf ==
  [pdf |-> Text(<<" ", "a", "\n">>), docx |-> Throw("not a zip"), ocr |-> Text(<<"o">>)]
\* A scanned PDF whose page OCR can read.
ScannedPdf ==
  [pdf |-> Text(<<"\n">>), docx |-> Throw("not a zip"), ocr |-> Text(<<"q", " ">>)]
\* A blank PDF.
BlankPdf ==
  [pdf |-> Text(<< >>), docx |-> Throw("not a zip"), ocr |-> Text(<<" ">>)]
\* A scanned PDF on which the OCR engine fails.
OcrFailPdf ==
  [pdf |-> Text(<< >>), docx |-> Throw("not a zip"), ocr |-> Throw("")]
\* A DOCX with text.
TextDocx ==
  [pdf |-> Throw("bad XRef"), docx |-> Text(<<"a", " ">>), ocr |-> Throw("ocr")]
\* A DOCX with white space only.
BlankDocx ==
  [pdf |-> Throw("bad XRef"), docx |-> Text(<<" ">>), ocr |-> Text(<<"o">>)]
\* Bytes no parser accepts.
Junk ==
  [pdf |-> Throw(""), docx |-> Throw(""), ocr |-> Throw("")]

Buffers == {TextPdf, ScannedPdf, BlankPdf, OcrFailPdf, TextDocx, BlankDocx, Junk}

NoBuffer == [pdf |-> Throw(""), docx |-> Throw(""), ocr |-> Text(<< >>)]

\* What supabase.from("knowledge_base").insert(...) can do: resolve without
\* error, resolve with {error}, or reject.
StoreResults ==
  { [kind |-> "ok", message |-> ""],
    [kind |-> "error", message |-> ""],
    [kind |-> "throw", message |-> "fetch failed"] }

NoResult == [kind |-> "none", message |-> ""]

----------------------------------------------------------------------------
\* State

VARIABLES
  variant,     \* which program the process runs
  running,     \* the process is up (the ENV CHECK passed and nothing killed it)
  calls,       \* per request: the handler's position and its local variables
  store,       \* the rows of the table knowledge_base, in insertion order
  insertedBy,  \* history: for each row of store, the request that inserted it
  buffers,     \* requests whose req.file.buffer is held in memory
  uploads,     \* requests whose temp file exists under uploads/
  overlapped   \* history: two requests have been in flight at the same time

vars == <<variant, running, calls, store, insertedBy, buffers, uploads, overlapped>>

NoResponse == [status |-> 0, body |-> ""]

Missing == [present |-> FALSE, originalname |-> NoFile, buffer |-> NoBuffer]

File(n, b) == [present |-> TRUE, originalname |-> n, buffer |-> b]

\* The uploads the model draws from: every buffer under the two plain
\* names, and a few buffers under the other names.
Files ==
  {File(n, b) : n \in {APdf, BDocx}, b \in Buffers}
    \cup {File(APdfUpper, b) : b \in {TextPdf, ScannedPdf, Junk}}
    \cup {File(CTxt, b) : b \in {TextPdf, Junk}}
    \cup {File(NoExt, b) : b \in {TextPdf, TextDocx}}
    \cup {File(BDocxMixed, TextDocx), File(HiddenPdf, TextPdf)}
    \cup {Missing}

\* A value of a JSON body: a string, another value, or absent (undefined).
Absent   == [type |-> "undefined", str |-> << >>]
Str(t)   == [type |-> "string", str |-> t]
Zero     == [type |-> "number", str |-> << >>]

NoBody == [content |-> Absent, source |-> Absent, question |-> Absent]

\* One upload for each path through the /upload handler.
PathFiles ==
  {File(APdf, b) : b \in {TextPdf, ScannedPdf, BlankPdf, OcrFailPdf, Junk}}
    \cup {File(BDocx, TextDocx), File(BDocx, BlankDocx), File(CTxt, TextPdf), Missing}

IdleCall ==
  [pc            |-> "idle",
   file          |-> Missing,
   extractedText |-> << >>,
   method        |-> "none",
   primary       |-> NoResult,
   ocr           |-> NoResult,
   primaryCalls  |-> 0,
   ocrCalls      |-> 0,
   storeResult   |-> NoResult,
   response      |-> NoResponse,
   route         |-> "none",
   body          |-> NoBody,
   inserts       |-> 0,
   context       |-> << >>,
   answer        |-> << >>,
   sent          |-> 0]

Init ==
  /\ variant \in Variants
  /\ running = TRUE
  /\ calls = [c \in Calls |-> IdleCall]
  /\ store = << >>
  /\ insertedBy = << >>
  /\ buffers = {}
  /\ uploads = {}
  /\ overlapped = FALSE

----------------------------------------------------------------------------
\* Pieces of the handlers

\* The last branch taken for a PDF rather than refused.
DetectKindElsePdf(originalname) ==
  IF ToLowerCase(ExtName(originalname)) = DotDocx THEN "docx" ELSE "pdf"

\* The branch the handler takes on the declared name.
DetectKind(originalname) ==
  LET ext == ToLowerCase(ExtName(originalname))
  IN  IF ext = DotDocx THEN "docx"
      ELSE IF ext = DotPdf THEN "pdf"
      ELSE "unsupported"

\* The extractor answering from the last stored text once there is one.
PrimaryExtractCached(kind, buffer) ==
  IF Len(store) > 0 THEN Text(store[Len(store)].content)
  ELSE IF kind = "docx" THEN buffer.docx ELSE buffer.pdf

\* The primary extractor's result for a buffer of a kind.
PrimaryExtract(kind, buffer) == IF kind = "docx" THEN buffer.docx ELSE buffer.pdf

\* An OCR failure swallowed into an empty reading.
RecognizeQuiet(buffer) == IF buffer.ocr.kind = "throw" THEN Text(<< >>) ELSE buffer.ocr

\* Tesseract.recognize(buffer, "eng")
Recognize(buffer) == buffer.ocr

\* OCR run on every PDF.
NeedsOcrAlways(kind, extractedText) == kind = "pdf"

\* server.js: "Use OCR if PDF has no text".
NeedsOcr(kind, extractedText) == kind = "pdf" /\ Falsy(extractedText)

Json(status, body) == [status |-> status, body |-> body]

\* The catch block answering as a bad request.
CatchAsBadRequest(err) ==
  Json(400, IF err.message # "" THEN err.message ELSE "File processing failed")

\* server.js, catch (err): res.status(500).json({error: err.message || ...}).
CatchResponse(err) ==
  Json(500, IF err.message # "" THEN err.message ELSE "File processing failed")

\* part_000, catch (err): res.status(500).json({error: "File upload failed"}).
DiskCatchResponse(err) == Json(500, "File upload failed")

\* extractedText declared outside the handler: the requests in flight share
\* it, and the insert reads what the latest of them wrote.
SharedText(c) ==
  LET W == {d \in Calls : calls[d].pc = "insert"}
  IN  calls[Max(W)].extractedText

\* extractedText is declared inside the handler (let): each request reads
\* its own.
LocalText(c) == calls[c].extractedText

\* The row /upload inserts: {content: extractedText, source: originalname}.
Record(extractedText, originalname) == [content |-> extractedText, source |-> originalname]

InFlight(c) == calls[c].pc \in {"primary", "ocr", "insert"}

\* The insert replacing the row of the same source, if there is one.
UpsertRow(rows, rec) ==
  IF \E i \in 1..Len(rows) : rows[i].source = rec.source
  THEN [i \in 1..Len(rows) |-> IF rows[i].source = rec.source THEN rec ELSE rows[i]]
  ELSE Append(rows, rec)

\* insert([rec]) that succeeds: one more row in the table.
InsertRow(rows, rec) == Append(rows, rec)

\* Only a rejected insert counts: the {error} of a resolved insert is ignored.
InsertFailedOnThrow(r) == r.kind = "throw"

\* const { error } = await insert(...); if (error) throw error;
\* the insert failed when it rejects or resolves with an error.
InsertFailed(r) == r.kind # "ok"

\* The handler sends response r and returns.
Done(call, r) == [call EXCEPT !.pc = "done", !.response = r, !.sent = @ + 1]

\* The handler body outside any try block.
UploadNotInTry == FALSE

\* The handler of /upload runs inside try { ... } catch (err) { ... } in both
\* programs: an exception thrown or a rejected await inside it is answered,
\* and does not become an unhandled rejection of the process.
UploadInTry == TRUE

\* An exception err is raised at a point of the /upload handler of request c,
\* whose local state is call; r is the response the catch block sends.
Raise(c, call, r) ==
  IF UploadInTry
  THEN /\ calls' = [calls EXCEPT ![c] = Done(call, r)]
       /\ running' = running
  ELSE /\ calls' = [calls EXCEPT ![c] = [call EXCEPT !.pc = "done"]]
       /\ running' \in BOOLEAN

----------------------------------------------------------------------------
\* POST /upload, src/server.js

\* From the arrival of the request to the first await.
UploadReceive(c, file) ==
  /\ running
  /\ variant = "server"
  /\ calls[c].pc = "idle"
  /\ LET call == [calls[c] EXCEPT !.file = file, !.route = "upload"]
         kind == DetectKind(file.originalname)
     IN  IF ~file.present
         THEN /\ calls' = [calls EXCEPT ![c] =
                   Done(call, Json(400, "No file received or empty file"))]
              /\ buffers' = buffers
         ELSE IF kind = "unsupported"
         THEN /\ calls' = [calls EXCEPT ![c] = Done(call, Json(400, "Unsupported file type"))]
              /\ buffers' = buffers
         ELSE /\ calls' = [calls EXCEPT ![c] =
                   [call EXCEPT !.pc = "primary", !.primaryCalls = @ + 1]]
              /\ buffers' = buffers \cup {c}
  /\ overlapped' = (overlapped \/ (InFlight(c)' /\ \E d \in Calls \ {c} : InFlight(d)))
  /\ UNCHANGED <<variant, running, store, insertedBy, uploads>>

\* mammoth.extractRawText or pdfParse settles.
UploadPrimaryReturn(c) ==
  /\ running
  /\ variant = "server"
  /\ calls[c].pc = "primary"
  /\ LET kind == DetectKind(calls[c].file.originalname)
         data == PrimaryExtract(kind, calls[c].file.buffer)
         call == [calls[c] EXCEPT !.primary = data, !.extractedText = Trim(data.text)]
     IN  IF data.kind = "throw"
         THEN /\ Raise(c, [calls[c] EXCEPT !.primary = data], CatchResponse(data))
              /\ buffers' = buffers \ {c}
         ELSE IF kind = "docx" /\ Falsy(call.extractedText)
         THEN /\ calls' = [calls EXCEPT ![c] =
                   Done(call, Json(400, "DOCX contains no readable text"))]
              /\ buffers' = buffers \ {c}
              /\ running' = running
         ELSE IF NeedsOcr(kind, call.extractedText)
         THEN /\ calls' = [calls EXCEPT ![c] =
                   [call EXCEPT !.pc = "ocr", !.ocrCalls = @ + 1]]
              /\ UNCHANGED <<buffers, running>>
         ELSE /\ calls' = [calls EXCEPT ![c] =
                   [call EXCEPT !.pc = "insert", !.method = "DirectText"]]
              /\ UNCHANGED <<buffers, running>>
  /\ UNCHANGED <<variant, store, insertedBy, uploads, overlapped>>

\* Tesseract.recognize settles.
UploadOcrReturn(c) ==
  /\ running
  /\ variant = "server"
  /\ calls[c].pc = "ocr"
  /\ LET ocrResult == Recognize(calls[c].file.buffer)
         call == [calls[c] EXCEPT !.ocr = ocrResult, !.extractedText = Trim(ocrResult.text)]
     IN  IF ocrResult.kind = "throw"
         THEN /\ Raise(c, [calls[c] EXCEPT !.ocr = ocrResult], CatchResponse(ocrResult))
              /\ buffers' = buffers \ {c}
         ELSE IF Falsy(call.extractedText)
         THEN /\ calls' = [calls EXCEPT ![c] =
                   Done(call, Json(400, "PDF contains no readable text even after OCR"))]
              /\ buffers' = buffers \ {c}
              /\ running' = running
         ELSE /\ calls' = [calls EXCEPT ![c] =
                   [call EXCEPT !.pc = "insert", !.method = "OCR"]]
              /\ UNCHANGED <<buffers, running>>
  /\ UNCHANGED <<variant, store, insertedBy, uploads, overlapped>>

\* supabase insert settles with result r.
UploadInsertReturn(c, r) ==
  /\ running
  /\ variant = "server"
  /\ calls[c].pc = "insert"
  /\ LET call == [calls[c] EXCEPT !.storeResult = r]
     IN  IF ~InsertFailed(r)
         THEN /\ store' = InsertRow(store, Record(LocalText(c), call.file.originalname))
              /\ insertedBy' = Append(insertedBy, c)
              /\ calls' = [calls EXCEPT ![c] =
                   Done(call, Json(200, "File uploaded and indexed successfully"))]
              /\ running' = running
         ELSE /\ Raise(c, call, CatchResponse(r))
              /\ UNCHANGED <<store, insertedBy>>
  /\ buffers' = buffers \ {c}
  /\ UNCHANGED <<variant, uploads, overlapped>>

----------------------------------------------------------------------------
\* POST /upload, src/unnamed/part_000

\* multer stores the file part under uploads/; then the handler runs to its
\* first await.
DiskReceive(c, file) ==
  /\ running
  /\ variant = "part_000"
  /\ calls[c].pc = "idle"
  /\ LET call == [calls[c] EXCEPT !.file = file, !.route = "upload"]
         kind == DetectKind(file.originalname)
     IN  IF ~file.present
         THEN \* req.file.path throws a TypeError
              /\ Raise(c, call, DiskCatchResponse(Throw("req.file is undefined")))
              /\ uploads' = uploads
         ELSE IF kind = "unsupported"
         THEN /\ calls' = [calls EXCEPT ![c] = Done(call, Json(400, "Unsupported file type"))]
              /\ uploads' = uploads
              /\ running' = running
         ELSE /\ calls' = [calls EXCEPT ![c] =
                   [call EXCEPT !.pc = "primary", !.primaryCalls = @ + 1]]
              /\ uploads' = uploads \cup {c}
              /\ running' = running
  /\ overlapped' = (overlapped \/ (InFlight(c)' /\ \E d \in Calls \ {c} : InFlight(d)))
  /\ UNCHANGED <<variant, store, insertedBy, buffers>>

\* pdfParse or mammoth.extractRawText settles.
DiskPrimaryReturn(c) ==
  /\ running
  /\ variant = "part_000"
  /\ calls[c].pc = "primary"
  /\ LET kind == DetectKind(calls[c].file.originalname)
         data == PrimaryExtract(kind, calls[c].file.buffer)
         call == [calls[c] EXCEPT !.primary = data, !.extractedText = data.text]
     IN  IF data.kind = "throw"
         THEN /\ Raise(c, [calls[c] EXCEPT !.primary = data], DiskCatchResponse(data))
              /\ uploads' = uploads
         ELSE IF Falsy(Trim(call.extractedText))
         THEN /\ calls' = [calls EXCEPT ![c] =
                   Done(call, Json(400, "No text extracted from file"))]
              /\ uploads' = uploads \ {c}
              /\ running' = running
         ELSE /\ calls' = [calls EXCEPT ![c] =
                   [call EXCEPT !.pc = "insert", !.method = "DirectText"]]
              /\ UNCHANGED <<uploads, running>>
  /\ UNCHANGED <<variant, store, insertedBy, buffers, overlapped>>

\* supabase insert settles with result r.
DiskInsertReturn(c, r) ==
  /\ running
  /\ variant = "part_000"
  /\ calls[c].pc = "insert"
  /\ LET call == [calls[c] EXCEPT !.storeResult = r]
     IN  IF r.kind = "throw"
         THEN /\ Raise(c, call, DiskCatchResponse(r))
              /\ UNCHANGED <<store, insertedBy, uploads>>
         ELSE IF r.kind = "error"
         THEN /\ calls' = [calls EXCEPT ![c] = Done(call, Json(500, r.message))]
              /\ uploads' = uploads \ {c}
              /\ UNCHANGED <<store, insertedBy, running>>
         ELSE /\ store' = InsertRow(store, Record(LocalText(c), call.file.originalname))
              /\ insertedBy' = Append(insertedBy, c)
              /\ calls' = [calls EXCEPT ![c] =
                   Done(call, Json(200, "File uploaded and indexed"))]
              /\ uploads' = uploads \ {c}
              /\ running' = running
  /\ UNCHANGED <<variant, buffers, overlapped>>

----------------------------------------------------------------------------
\* POST /add and POST /ask

\* Bodies of POST /add.
AddBodies ==
  {[content |-> ct, source |-> Str(<<"s">>), question |-> Absent] :
     ct \in {Str(<<" ", "a">>), Absent, Str(<< >>), Zero}}
    \cup {[content |-> Str(<<" ", "a">>), source |-> sr, question |-> Absent] :
            sr \in {Absent, Str(<< >>)}}

\* Bodies of POST /ask.
AskBodies ==
  {[content |-> Absent, source |-> Absent, question |-> q] :
     q \in {Str(<<"q">>), Str(<< >>), Absent}}

\* What fetch(...) to the language model can do.
FetchResults == {"ok", "throw"}

\* What response.json() gives: a candidate text, no candidate, or a throw.
LlmResults == {Text(<<" ", "y">>), Text(<< >>), Throw("bad json")}

\* A value counts whenever it is present.
TruthyIfPresent(v) == v.type # "undefined"

\* JavaScript truthiness of a body value: undefined, "" and 0 are falsy.
Truthy(v) ==
  /\ v.type # "undefined"
  /\ ~(v.type = "string" /\ v.str = << >>)
  /\ ~(v.type = "number")

\* server.js /add, catch (err): err.message || "Failed to add knowledge".
AddCatchResponse(err) ==
  Json(500, IF err.message # "" THEN err.message ELSE "Failed to add knowledge")

\* A rejected await outside any try block: the handler's promise rejects.
\* Express 4 ignores it: the request gets no response, and the unhandled
\* rejection ends the process or not, by the Node version. Express 5 passes
\* it to the default error handler, which answers 500.
Unhandled(c, call) ==
  \/ /\ calls' = [calls EXCEPT ![c] = [call EXCEPT !.pc = "aborted"]]
     /\ running' \in BOOLEAN
  \/ /\ calls' = [calls EXCEPT ![c] = Done(call, Json(500, "Internal Server Error"))]
     /\ running' = running

\* server.js /add, to the await of the insert.
AddReceive(c, body) ==
  /\ running
  /\ variant = "server"
  /\ calls[c].pc = "idle"
  /\ LET call == [calls[c] EXCEPT !.route = "add", !.body = body]
     IN  IF ~Truthy(body.content) \/ ~Truthy(body.source)
         THEN calls' = [calls EXCEPT ![c] = Done(call, Json(400, "Missing content or source"))]
         ELSE calls' = [calls EXCEPT ![c] =
                [call EXCEPT !.pc = "addInsert", !.inserts = @ + 1]]
  /\ UNCHANGED <<variant, running, store, insertedBy, buffers, uploads, overlapped>>

\* server.js /add, the insert settles with result r.
AddInsertReturn(c, r) ==
  /\ running
  /\ variant = "server"
  /\ calls[c].pc = "addInsert"
  /\ LET call == [calls[c] EXCEPT !.storeResult = r]
     IN  IF ~InsertFailed(r)
         THEN /\ store' = InsertRow(store, Record(call.body.content.str, call.body.source.str))
              /\ insertedBy' = Append(insertedBy, c)
              /\ calls' = [calls EXCEPT ![c] = Done(call, Json(200, "success"))]
         ELSE /\ calls' = [calls EXCEPT ![c] = Done(call, AddCatchResponse(r))]
              /\ UNCHANGED <<store, insertedBy>>
  /\ UNCHANGED <<variant, running, buffers, uploads, overlapped>>

\* part_000 /add, to the await of the insert.
DiskAddReceive(c, body) ==
  /\ running
  /\ variant = "part_000"
  /\ calls[c].pc = "idle"
  /\ LET call == [calls[c] EXCEPT !.route = "add", !.body = body]
     IN  IF ~Truthy(body.content) \/ ~Truthy(body.source)
         THEN calls' = [calls EXCEPT ![c] = Done(call, Json(400, "Missing content or source"))]
         ELSE calls' = [calls EXCEPT ![c] =
                [call EXCEPT !.pc = "addInsert", !.inserts = @ + 1]]
  /\ UNCHANGED <<variant, running, store, insertedBy, buffers, uploads, overlapped>>

\* part_000 /add, the insert settles with result r; the await is in no try.
DiskAddInsertReturn(c, r) ==
  /\ running
  /\ variant = "part_000"
  /\ calls[c].pc = "addInsert"
  /\ LET call == [calls[c] EXCEPT !.storeResult = r]
     IN  IF r.kind = "throw"
         THEN /\ Unhandled(c, call)
              /\ UNCHANGED <<store, insertedBy>>
         ELSE IF r.kind = "error"
         THEN /\ calls' = [calls EXCEPT ![c] = Done(call, Json(500, r.message))]
              /\ UNCHANGED <<store, insertedBy, running>>
         ELSE /\ store' = InsertRow(store, Record(call.body.content.str, call.body.source.str))
              /\ insertedBy' = Append(insertedBy, c)
              /\ calls' = [calls EXCEPT ![c] = Done(call, Json(200, "success"))]
              /\ running' = running
  /\ UNCHANGED <<variant, buffers, uploads, overlapped>>

RECURSIVE JoinTexts(_)
\* Array.prototype.join("\n\n")
JoinTexts(ts) ==
  IF ts = << >> THEN << >>
  ELSE IF Len(ts) = 1 THEN ts[1]
  ELSE ts[1] \o <<"\n", "\n">> \o JoinTexts(Tail(ts))

NonEmpty(t) == Len(t) > 0

\* server.js: the contents trimmed, the empty ones dropped, joined.
Context(rows) ==
  JoinTexts(SelectSeq([i \in 1..Len(rows) |-> Trim(rows[i].content)], NonEmpty))

\* part_000: the contents joined as they are.
DiskContext(rows) == JoinTexts([i \in 1..Len(rows) |-> rows[i].content])

AskFailed == Json(500, "AI request failed")

\* /ask of both programs, to the await of the select.
AskReceive(c, body) ==
  /\ running
  /\ calls[c].pc = "idle"
  /\ LET call == [calls[c] EXCEPT !.route = "ask", !.body = body]
     IN  IF ~Truthy(body.question)
         THEN calls' = [calls EXCEPT ![c] = Done(call, Json(400, "No question provided"))]
         ELSE calls' = [calls EXCEPT ![c] = [call EXCEPT !.pc = "select"]]
  /\ UNCHANGED <<variant, running, store, insertedBy, buffers, uploads, overlapped>>

\* server.js /ask, the select settles with result r; then fetch is awaited.
AskSelectReturn(c, r) ==
  /\ running
  /\ variant = "server"
  /\ calls[c].pc = "select"
  /\ LET call == [calls[c] EXCEPT !.storeResult = r]
     IN  IF r.kind # "ok"
         THEN calls' = [calls EXCEPT ![c] = Done(call, AskFailed)]
         ELSE calls' = [calls EXCEPT ![c] =
                [call EXCEPT !.pc = "fetch", !.context = Context(store)]]
  /\ UNCHANGED <<variant, running, store, insertedBy, buffers, uploads, overlapped>>

\* part_000 /ask, the select settles with result r: outside any try, and
\* its error is not read.
DiskAskSelectReturn(c, r) ==
  /\ running
  /\ variant = "part_000"
  /\ calls[c].pc = "select"
  /\ LET call == [calls[c] EXCEPT !.storeResult = r]
     IN  IF r.kind = "throw"
         THEN Unhandled(c, call)
         ELSE /\ calls' = [calls EXCEPT ![c] =
                   [call EXCEPT !.pc = "fetch",
                                !.context = IF r.kind = "ok" THEN DiskContext(store) ELSE << >>]]
              /\ running' = running
  /\ UNCHANGED <<variant, store, insertedBy, buffers, uploads, overlapped>>

\* /ask of both programs: fetch settles; then response.json() is awaited.
AskFetchReturn(c, r) ==
  /\ running
  /\ calls[c].pc = "fetch"
  /\ IF r = "throw"
     THEN calls' = [calls EXCEPT ![c] = Done(calls[c], AskFailed)]
     ELSE calls' = [calls EXCEPT ![c] = [calls[c] EXCEPT !.pc = "json"]]
  /\ UNCHANGED <<variant, running, store, insertedBy, buffers, uploads, overlapped>>

NoAnswer == <<"N", "o", " ", "a", "n", "s", "w", "e", "r">>

\* /ask of both programs: response.json() settles with result r; the answer
\* is the candidate text (trimmed in server.js) or the fixed text.
AskJsonReturn(c, r) ==
  /\ running
  /\ calls[c].pc = "json"
  /\ LET text == IF variant = "server" THEN Trim(r.text) ELSE r.text
         answer == IF Falsy(text) THEN NoAnswer ELSE text
     IN  IF r.kind = "throw"
         THEN calls' = [calls EXCEPT ![c] = Done(calls[c], AskFailed)]
         ELSE calls' = [calls EXCEPT ![c] =
                Done([calls[c] EXCEPT !.answer = answer], Json(200, "answer"))]
  /\ UNCHANGED <<variant, running, store, insertedBy, buffers, uploads, overlapped>>

----------------------------------------------------------------------------

Next ==
  \/ \E c \in Calls, file \in Files : UploadReceive(c, file)
  \/ \E c \in Calls : UploadPrimaryReturn(c)
  \/ \E c \in Calls : UploadOcrReturn(c)
  \/ \E c \in Calls, r \in StoreResults : UploadInsertReturn(c, r)
  \/ \E c \in Calls, file \in Files : DiskReceive(c, file)
  \/ \E c \in Calls : DiskPrimaryReturn(c)
  \/ \E c \in Calls, r \in StoreResults : DiskInsertReturn(c, r)

Spec == Init /\ [][Next]_vars

\* The three routes together.
NextAll ==
  \/ \E c \in Calls, file \in PathFiles : UploadReceive(c, file)
  \/ \E c \in Calls : UploadPrimaryReturn(c)
  \/ \E c \in Calls : UploadOcrReturn(c)
  \/ \E c \in Calls, r \in StoreResults : UploadInsertReturn(c, r)
  \/ \E c \in Calls, file \in PathFiles : DiskReceive(c, file)
  \/ \E c \in Calls : DiskPrimaryReturn(c)
  \/ \E c \in Calls, r \in StoreResults : DiskInsertReturn(c, r)
  \/ \E c \in Calls, body \in AddBodies : AddReceive(c, body)
  \/ \E c \in Calls, r \in StoreResults : AddInsertReturn(c, r)
  \/ \E c \in Calls, body \in AddBodies : DiskAddReceive(c, body)
  \/ \E c \in Calls, r \in StoreResults : DiskAddInsertReturn(c, r)
  \/ \E c \in Calls, body \in AskBodies : AskReceive(c, body)
  \/ \E c \in Calls, r \in StoreResults : AskSelectReturn(c, r)
  \/ \E c \in Calls, r \in StoreResults : DiskAskSelectReturn(c, r)
  \/ \E c \in Calls, r \in FetchResults : AskFetchReturn(c, r)
  \/ \E c \in Calls, r \in LlmResults : AskJsonReturn(c, r)

SpecAll == Init /\ [][NextAll]_vars

TypeOK ==
  /\ variant \in Variants
  /\ running \in BOOLEAN
  /\ \A c \in Calls :
       calls[c].pc \in {"idle", "primary", "ocr", "insert", "done",
                        "addInsert", "select", "fetch", "json", "aborted"}
  /\ Len(store) = Len(insertedBy)
  /\ buffers \subseteq Calls
  /\ uploads \subseteq Calls

----------------------------------------------------------------------------
\* Vocabulary of the properties, independent of the handlers' own helpers

\* A text that is empty or white space only.
IsBlank(t) == \A i \in 1..Len(t) : t[i] \in WhiteSpace

PdfSuffixes ==
  {<<".", p, d, f>> : p \in {"p", "P"}, d \in {"d", "D"}, f \in {"f", "F"}}

DocxSuffixes ==
  {<<".", d, o, c, x>> : d \in {"d", "D"}, o \in {"o", "O"}, c \in {"c", "C"}, x \in {"x", "X"}}

EndsWith(name, suffixes) ==
  \E suf \in suffixes :
    /\ Len(name) > Len(suf)
    /\ SubSeq(name, Len(name) - Len(suf) + 1, Len(name)) = suf

\* The document kind a declared name stands for.
DeclaredKind(name) ==
  IF EndsWith(name, PdfSuffixes) THEN "pdf"
  ELSE IF EndsWith(name, DocxSuffixes) THEN "docx"
  ELSE "unsupported"

Finished(c) == calls[c].pc = "done"
Started(c)  == calls[c].pc # "idle"

\* The rows of the store that request c inserted.
RowsOf(c) == {i \in 1..Len(store) : insertedBy[i] = c}

----------------------------------------------------------------------------
\* C1: every record that /upload inserted has content that is not blank: an
\* extraction whose trimmed text is empty never reaches the insert.
C1_ContentNeverBlank ==
  /\ \A i \in 1..Len(store) : ~IsBlank(store[i].content)
  /\ \A c \in Calls :
       calls[c].pc = "insert" => ~IsBlank(calls[c].extractedText)

\* A row is in the store while another request, whose extraction came out
\* blank, has been refused.
C1_Witness ==
  /\ Len(store) > 0
  /\ \E c \in Calls :
       /\ Finished(c)
       /\ calls[c].primary.kind = "text"
       /\ IsBlank(calls[c].primary.text)
       /\ calls[c].response.status = 400
       /\ RowsOf(c) = {}

\* C2: OCR is invoked at most once per call, and only for a PDF whose primary
\* extractor has returned text that is blank; never for a DOCX, never for a
\* PDF with text.
C2_OcrOnlyAfterBlankPdf ==
  \A c \in Calls :
    /\ calls[c].ocrCalls <= 1
    /\ calls[c].ocrCalls = 1 =>
         /\ calls[c].file.present
         /\ DeclaredKind(calls[c].file.originalname) = "pdf"
         /\ calls[c].primaryCalls = 1
         /\ calls[c].primary = calls[c].file.buffer.pdf
         /\ calls[c].primary.kind = "text"
         /\ IsBlank(calls[c].primary.text)
    /\ calls[c].pc = "ocr" => calls[c].ocrCalls = 1

\* One request went through OCR, and another, a PDF with a text layer, ended
\* without it.
C2_Witness ==
  /\ \E c \in Calls : Finished(c) /\ calls[c].ocrCalls = 1
  /\ \E c \in Calls :
       /\ Finished(c)
       /\ DeclaredKind(calls[c].file.originalname) = "pdf"
       /\ calls[c].primary.kind = "text"
       /\ ~IsBlank(calls[c].primary.text)
       /\ calls[c].ocrCalls = 0

\* C3: a call whose declared name is neither pdf nor docx ends at once as
\* "Unsupported file type", with no extractor or OCR invoked and no insert,
\* whatever the buffer holds.
C3_UnsupportedRejectedFirst ==
  \A c \in Calls :
    (/\ Started(c)
     /\ calls[c].file.present
     /\ DeclaredKind(calls[c].file.originalname) = "unsupported")
    => /\ Finished(c)
       /\ calls[c].response = Json(400, "Unsupported file type")
       /\ calls[c].primaryCalls = 0
       /\ calls[c].ocrCalls = 0
       /\ calls[c].storeResult = NoResult
       /\ RowsOf(c) = {}

\* A well-formed PDF uploaded under a name without extension was refused.
C3_Witness ==
  \E c \in Calls :
    /\ Finished(c)
    /\ calls[c].file.present
    /\ ExtName(calls[c].file.originalname) = << >>
    /\ calls[c].file.buffer.pdf.kind = "text"
    /\ calls[c].response = Json(400, "Unsupported file type")

\* What a request was given, told from its inputs.
IsPdf(c)  == calls[c].file.present /\ DeclaredKind(calls[c].file.originalname) = "pdf"
IsDocx(c) == calls[c].file.present /\ DeclaredKind(calls[c].file.originalname) = "docx"

BlankText(o) == o.kind = "text" /\ IsBlank(o.text)

\* A PDF whose text layer and whose OCR reading are both blank.
TextlessPdf(c) ==
  IsPdf(c) /\ BlankText(calls[c].file.buffer.pdf) /\ BlankText(calls[c].file.buffer.ocr)

\* A DOCX whose text is blank.
EmptyDocx(c) == IsDocx(c) /\ BlankText(calls[c].file.buffer.docx)

Failed(c) == Finished(c) /\ calls[c].response.status # 200

\* C4: a textless PDF and an empty DOCX both fail, and with different
\* caller-visible failures (NoRecoverableText against EmptyDocument).
C4_EmptyKindsDistinct ==
  \A c, d \in Calls :
    (Finished(c) /\ TextlessPdf(c) /\ Finished(d) /\ EmptyDocx(d))
    => /\ Failed(c)
       /\ Failed(d)
       /\ calls[c].response # calls[d].response

\* C5: a step of a call that is not its successful end leaves the store as
\* it was; a call that ends in a failure has inserted no row, is answered
\* with an error status, and leaves the process running.
C5_FailedCallLeavesStore ==
  [][\A c \in Calls :
       (/\ calls'[c] # calls[c]
        /\ ~(calls'[c].pc = "done" /\ calls'[c].response.status = 200))
       => /\ store' = store
          /\ insertedBy' = insertedBy
          /\ calls'[c].pc = "done" =>
               /\ calls'[c].response.status \in {400, 500}
               /\ RowsOf(c)' = {}
               /\ running']_vars

\* A call has failed while the store holds a row of another call.
C5_Witness ==
  /\ Len(store) > 0
  /\ running
  /\ \E c \in Calls : Failed(c) /\ RowsOf(c) = {}

\* C6: once a call has returned, nothing it stored for the upload remains:
\* neither the buffer in memory nor the temp file under uploads/.
C6_NothingRetained ==
  \A c \in Calls : Finished(c) => c \notin buffers /\ c \notin uploads


\* The primary extractor of the call's kind throws on the call's buffer.
Malformed(c) ==
  \/ IsPdf(c) /\ calls[c].file.buffer.pdf.kind = "throw"
  \/ IsDocx(c) /\ calls[c].file.buffer.docx.kind = "throw"

\* C7, as claimed: an exception of the primary extractor ends the call in a
\* failure that differs from the failure of every call that failed otherwise
\* (an OCR exception and a failed insert among them).
C7_MalformedDistinguishable ==
  \A c, d \in Calls :
    (Finished(c) /\ Malformed(c) /\ Failed(d) /\ ~Malformed(d))
    => /\ Failed(c)
       /\ calls[c].response # calls[d].response

\* C7, amended: an exception of the primary extractor is caught and answered
\* with status 500, carrying the exception's message or the fixed text of the
\* catch block; OCR is not tried, nothing is inserted; the failures answered
\* with status 400 (unsupported format, empty DOCX, textless PDF) and a
\* success differ from it.
C7_MalformedIsCaught ==
  \A c \in Calls :
    /\ (Finished(c) /\ Malformed(c))
       => /\ calls[c].response.status = 500
          /\ calls[c].response.body \in
               {calls[c].primary.message, "File processing failed", "File upload failed"}
          /\ calls[c].response.body # ""
          /\ calls[c].ocrCalls = 0
          /\ calls[c].storeResult = NoResult
          /\ RowsOf(c) = {}
    /\ (/\ Finished(c)
        /\ \/ calls[c].file.present /\ DeclaredKind(calls[c].file.originalname) = "unsupported"
           \/ EmptyDocx(c)
           \/ TextlessPdf(c))
       => calls[c].response.status = 400
    /\ (Finished(c) /\ RowsOf(c) # {}) => calls[c].response.status = 200

\* Two extractor exceptions were answered, one with its own message and one
\* without a message, and an unsupported upload was refused.
C7_Witness ==
  /\ \E c \in Calls :
       /\ Finished(c)
       /\ Malformed(c)
       /\ calls[c].primary.kind = "throw"
       /\ calls[c].response.status = 500
  /\ \E d \in Calls : Finished(d) /\ ~Malformed(d) /\ calls[d].response.status = 400

\* OCR was invoked for the call and the engine throws on its buffer.
OcrThrew(c) == calls[c].ocrCalls = 1 /\ calls[c].file.buffer.ocr.kind = "throw"

\* OCR was invoked for the call and reads nothing from its buffer.
OcrBlank(c) == calls[c].ocrCalls = 1 /\ BlankText(calls[c].file.buffer.ocr)

\* C8: for a PDF without text, an OCR engine that throws is answered
\* differently from an OCR engine that reads nothing; neither call inserts.
C8_OcrThrowDiffersFromBlank ==
  /\ \A c \in Calls :
       (Finished(c) /\ (OcrThrew(c) \/ OcrBlank(c))) => Failed(c) /\ RowsOf(c) = {}
  /\ \A c, d \in Calls :
       (Finished(c) /\ OcrThrew(c) /\ Finished(d) /\ OcrBlank(d))
       => calls[c].response # calls[d].response

\* One call ended on an OCR exception and another on an empty OCR reading.
C8_Witness ==
  \E c, d \in Calls :
    /\ Finished(c) /\ OcrThrew(c) /\ calls[c].ocr.kind = "throw"
    /\ Finished(d) /\ OcrBlank(d) /\ calls[d].ocr.kind = "text"

\* C9: two calls given the same buffer and name end the same way: same
\* extracted text, same extraction path, and, when the store treated their
\* inserts alike, the same response.
C9_SameInputSameOutcome ==
  \A c, d \in Calls :
    (Finished(c) /\ Finished(d) /\ calls[c].file = calls[d].file)
    => /\ calls[c].extractedText = calls[d].extractedText
       /\ calls[c].method = calls[d].method
       /\ calls[c].primaryCalls = calls[d].primaryCalls
       /\ calls[c].ocrCalls = calls[d].ocrCalls
       /\ (calls[c].storeResult.kind = "none") = (calls[d].storeResult.kind = "none")
       /\ calls[c].storeResult = calls[d].storeResult
            => calls[c].response = calls[d].response

\* The same scanned PDF was uploaded twice and stored twice.
C9_Witness ==
  \E c, d \in Calls :
    /\ c # d
    /\ calls[c].file = calls[d].file
    /\ calls[c].file.present
    /\ Finished(c) /\ Finished(d)
    /\ calls[c].response.status = 200
    /\ calls[d].response.status = 200
    /\ Len(store) >= 2


\* What a call with upload file ends as when it runs alone, r being what
\* the store does with its insert: the handler read from top to bottom.
NoRows == << >>

Outcome(resp, rows) == [response |-> resp, rows |-> rows]

AloneServer(file, r) ==
  LET kind == DetectKind(file.originalname)
      data == PrimaryExtract(kind, file.buffer)
      ocrResult == Recognize(file.buffer)
      direct == Trim(data.text)
      viaOcr == kind = "pdf" /\ Falsy(direct)
      text == IF viaOcr THEN Trim(ocrResult.text) ELSE direct
  IN  IF ~file.present
        THEN Outcome(Json(400, "No file received or empty file"), NoRows)
      ELSE IF kind = "unsupported"
        THEN Outcome(Json(400, "Unsupported file type"), NoRows)
      ELSE IF data.kind = "throw"
        THEN Outcome(CatchResponse(data), NoRows)
      ELSE IF kind = "docx" /\ Falsy(direct)
        THEN Outcome(Json(400, "DOCX contains no readable text"), NoRows)
      ELSE IF viaOcr /\ ocrResult.kind = "throw"
        THEN Outcome(CatchResponse(ocrResult), NoRows)
      ELSE IF Falsy(text)
        THEN Outcome(Json(400, "PDF contains no readable text even after OCR"), NoRows)
      ELSE IF r.kind = "ok"
        THEN Outcome(Json(200, "File uploaded and indexed successfully"),
                     <<Record(text, file.originalname)>>)
      ELSE Outcome(CatchResponse(r), NoRows)

AloneDisk(file, r) ==
  LET kind == DetectKind(file.originalname)
      data == PrimaryExtract(kind, file.buffer)
  IN  IF ~file.present
        THEN Outcome(DiskCatchResponse(Throw("req.file is undefined")), NoRows)
      ELSE IF kind = "unsupported"
        THEN Outcome(Json(400, "Unsupported file type"), NoRows)
      ELSE IF data.kind = "throw"
        THEN Outcome(DiskCatchResponse(data), NoRows)
      ELSE IF Falsy(Trim(data.text))
        THEN Outcome(Json(400, "No text extracted from file"), NoRows)
      ELSE IF r.kind = "throw"
        THEN Outcome(DiskCatchResponse(r), NoRows)
      ELSE IF r.kind = "error"
        THEN Outcome(Json(500, r.message), NoRows)
      ELSE Outcome(Json(200, "File uploaded and indexed"),
                   <<Record(data.text, file.originalname)>>)

Alone(c) ==
  IF variant = "server"
  THEN AloneServer(calls[c].file, calls[c].storeResult)
  ELSE AloneDisk(calls[c].file, calls[c].storeResult)

\* C10: under every interleaving, each call ends with the response and the
\* row it has when run alone, and the store holds exactly the rows of the
\* calls that succeeded, each once.
C10_ConcurrentCallsIndependent ==
  /\ \A c \in Calls :
       Finished(c) =>
         /\ calls[c].response = Alone(c).response
         /\ Cardinality(RowsOf(c)) = Len(Alone(c).rows)
         /\ \A i \in RowsOf(c) : store[i] = Alone(c).rows[1]
         /\ (calls[c].response.status = 200) = (RowsOf(c) # {})
  /\ \A c \in Calls : ~Finished(c) => RowsOf(c) = {}
  /\ \A i \in 1..Len(store) : insertedBy[i] \in Calls

\* Two calls with different documents were in flight together and both
\* succeeded.
C10_Witness ==
  /\ overlapped
  /\ \E c, d \in Calls :
       /\ Finished(c) /\ Finished(d)
       /\ calls[c].response.status = 200
       /\ calls[d].response.status = 200
       /\ calls[c].extractedText # calls[d].extractedText
       /\ calls[c].file.originalname # calls[d].file.originalname
       /\ Len(store) = 2


----------------------------------------------------------------------------
\* Two characters that are the same letter in either case.
SameLetter(a, b) ==
  \/ a = b
  \/ \E pair \in {<<"p", "P">>, <<"d", "D">>, <<"f", "F">>, <<"o", "O">>,
                 <<"c", "C">>, <<"x", "X">>, <<"t", "T">>} :
       {a, b} = {pair[1], pair[2]}

\* Two names that differ at most in the letter case of what follows their
\* last dot.
SameUpToExtensionCase(n, m) ==
  /\ Len(n) = Len(m)
  /\ \E k \in 1..Len(n) :
       /\ n[k] = "." /\ m[k] = "."
       /\ \A i \in 1..Len(n) :
            IF i < k THEN n[i] = m[i]
            ELSE n[i] # "." \/ i = k
       /\ \A i \in k..Len(n) : SameLetter(n[i], m[i])

\* The extractor result a call of declared kind k gets from its buffer.
ExtractorOf(k, buffer) == IF k = "pdf" THEN buffer.pdf ELSE buffer.docx

\* C12: the extractor a call is routed to depends on the extension of the
\* declared name alone, compared without regard to letter case: pdf goes to
\* pdfParse, docx to mammoth, whatever the buffer holds, and every other or
\* missing extension is refused as unsupported; names that differ only in the
\* case of the extension are routed alike.
C12_KindFromExtension ==
  /\ \A c \in Calls :
       (Started(c) /\ calls[c].file.present) =>
         LET k == DeclaredKind(calls[c].file.originalname)
         IN  IF k = "unsupported"
             THEN /\ calls[c].primaryCalls = 0
                  /\ calls[c].response = Json(400, "Unsupported file type")
             ELSE /\ calls[c].primaryCalls = 1
                  /\ calls[c].response # Json(400, "Unsupported file type")
                  /\ calls[c].primary # NoResult =>
                       calls[c].primary = ExtractorOf(k, calls[c].file.buffer)
  /\ \A c, d \in Calls :
       (/\ Started(c) /\ calls[c].file.present
        /\ Started(d) /\ calls[d].file.present
        /\ SameUpToExtensionCase(calls[c].file.originalname, calls[d].file.originalname))
       => /\ calls[c].primaryCalls = calls[d].primaryCalls
          /\ (/\ calls[c].primary # NoResult
              /\ calls[d].primary # NoResult
              /\ calls[c].file.buffer = calls[d].file.buffer)
             => calls[c].primary = calls[d].primary

\* The same PDF went to the PDF extractor under a.pdf and under a.PDF.
C12_Witness ==
  \E c, d \in Calls :
    /\ calls[c].file.originalname = APdf
    /\ calls[d].file.originalname = APdfUpper
    /\ calls[c].file.buffer = calls[d].file.buffer
    /\ calls[c].primary.kind = "text"
    /\ calls[d].primary.kind = "text"

\* t is raw without the white space at its two ends.
IsTrimOf(t, raw) ==
  /\ t = << >> \/ (t[1] \notin WhiteSpace /\ t[Len(t)] \notin WhiteSpace)
  /\ \E a \in 0..Len(raw) :
       /\ a + Len(t) <= Len(raw)
       /\ \A i \in 1..Len(raw) :
            IF i > a /\ i <= a + Len(t) THEN raw[i] = t[i - a]
            ELSE raw[i] \in WhiteSpace

\* The text a successful upload is to store, before trimming: the primary
\* extractor's text unless it is blank, else the OCR text.
RawTextOf(c) ==
  IF ~BlankText(calls[c].primary) THEN calls[c].primary.text ELSE calls[c].ocr.text

\* C13: a successful /upload inserts exactly one record; its source is the
\* declared name and its content is the extracted text trimmed: the primary
\* text when that is not blank (DirectText), else the OCR text (OCR).
C13_RecordIsTrimmedText ==
  \A c \in Calls :
    (Finished(c) /\ calls[c].route = "upload" /\ calls[c].response.status = 200)
    => /\ Cardinality(RowsOf(c)) = 1
       /\ calls[c].method = (IF BlankText(calls[c].primary) THEN "OCR" ELSE "DirectText")
       /\ calls[c].method = "OCR" => IsPdf(c)
       /\ \A i \in RowsOf(c) :
            /\ store[i].source = calls[c].file.originalname
            /\ IsTrimOf(store[i].content, RawTextOf(c))

\* C14: /upload answers success only once its insert has settled without
\* error: no response is out while the insert is pending, an insert that
\* reports an error or rejects is answered with status 500, and a success
\* means that exactly one row of the call is in the store.
C14_SuccessOnlyAfterInsert ==
  \A c \in Calls :
    calls[c].route = "upload" =>
      /\ calls[c].pc # "done" => calls[c].response = NoResponse /\ RowsOf(c) = {}
      /\ calls[c].response.status = 200 =>
           /\ calls[c].storeResult.kind = "ok"
           /\ Cardinality(RowsOf(c)) = 1
      /\ (Finished(c) /\ calls[c].storeResult.kind \in {"error", "throw"}) =>
           /\ calls[c].response.status = 500
           /\ RowsOf(c) = {}

\* One upload was answered 500 after its insert reported an error, and
\* another succeeded with its row stored.
C14_Witness ==
  /\ \E c \in Calls :
       /\ Finished(c)
       /\ calls[c].storeResult.kind = "error"
       /\ calls[c].response.status = 500
  /\ \E d \in Calls :
       /\ Finished(d)
       /\ calls[d].storeResult.kind = "ok"
       /\ calls[d].response.status = 200
       /\ RowsOf(d) # {}


----------------------------------------------------------------------------
\* Properties of the three routes together (SpecAll)

\* Request c is a /upload or /add that has been answered with success.
Wrote(c) == calls[c].route \in {"upload", "add"} /\ calls[c].response.status = 200

\* The handler of request c has ended, with or without a response.
Ended(c) == calls[c].pc \in {"done", "aborted"}

\* C11: the store is append-only under /add, /upload and /ask: a step keeps
\* every row in place and adds at most one; it adds one exactly when an /add
\* or /upload succeeds; /ask changes nothing; duplicates accumulate, so the
\* store has one row per successful call, and calls given the same document
\* leave as many equal rows.
C11_AppendOnly ==
  [][/\ Len(store') >= Len(store)
     /\ Len(store') <= Len(store) + 1
     /\ SubSeq(store', 1, Len(store)) = store
     /\ (Len(store') = Len(store) + 1) <=> (\E c \in Calls : ~Wrote(c) /\ Wrote(c)')
     /\ \A c \in Calls :
          (calls'[c].route = "ask" /\ calls'[c] # calls[c]) => store' = store
     /\ Len(store') = Cardinality({c \in Calls : Wrote(c)'})
     /\ \A c, d \in Calls :
          (/\ c # d
           /\ Wrote(c)' /\ Wrote(d)'
           /\ calls'[c].route = calls'[d].route
           /\ calls'[c].file = calls'[d].file
           /\ calls'[c].body = calls'[d].body)
          => \E i \in RowsOf(c)', j \in RowsOf(d)' : i # j /\ store'[i] = store'[j]
    ]_vars

\* The same document was uploaded twice with success: two equal rows.
C11_Witness ==
  /\ Len(store) = 2
  /\ store[1] = store[2]
  /\ \E c, d \in Calls :
       /\ c # d
       /\ calls[c].route = "upload" /\ calls[d].route = "upload"
       /\ calls[c].file = calls[d].file
       /\ Wrote(c) /\ Wrote(d)

\* C15: every request whose handler has ended has been sent exactly one
\* response, and no request is ever sent two.
C15_ExactlyOneResponse ==
  \A c \in Calls :
    /\ calls[c].sent <= 1
    /\ Ended(c) => calls[c].sent = 1

\* A body value that is missing or the empty string.
MissingOrEmpty(v) == v = Absent \/ v = Str(<< >>)

\* A body value that JavaScript takes for false: missing, "" or 0 here.
JsFalsy(v) == v \in {Absent, Str(<< >>), Zero}

\* What /add owes request c, rejected telling whether its body is refused.
AddContract(c, rejected) ==
  IF rejected
  THEN /\ calls[c].response = Json(400, "Missing content or source")
       /\ calls[c].inserts = 0
       /\ calls[c].storeResult = NoResult
       /\ RowsOf(c) = {}
  ELSE /\ calls[c].inserts = 1
       /\ calls[c].response.status = 200 =>
            /\ calls[c].storeResult.kind = "ok"
            /\ Cardinality(RowsOf(c)) = 1
            /\ \A i \in RowsOf(c) :
                 store[i] = [content |-> calls[c].body.content.str,
                             source  |-> calls[c].body.source.str]
       /\ calls[c].response.status # 200 => RowsOf(c) = {}
       /\ (Ended(c) /\ calls[c].storeResult.kind = "ok") => calls[c].response.status = 200

\* C16, as claimed: /add refuses with 400, inserting nothing, exactly the
\* bodies whose content or source is missing or the empty string; any other
\* body gets one insert of {content, source} as given, and success only if
\* the insert reported no error.
C16_AddRejectsMissingOrEmpty ==
  \A c \in Calls :
    calls[c].route = "add" =>
      AddContract(c, MissingOrEmpty(calls[c].body.content)
                       \/ MissingOrEmpty(calls[c].body.source))

\* C16, amended: /add refuses with 400, inserting nothing, exactly the bodies
\* whose content or source is falsy (missing, the empty string, and also 0);
\* any other body gets one insert of {content, source} as given, and success
\* only if the insert reported no error.
C16_AddRejectsFalsy ==
  \A c \in Calls :
    calls[c].route = "add" =>
      AddContract(c, JsFalsy(calls[c].body.content) \/ JsFalsy(calls[c].body.source))

\* An /add with content 0 was refused and another /add stored its row.
C16_Witness ==
  /\ \E c \in Calls :
       /\ calls[c].route = "add"
       /\ calls[c].body.content = Zero
       /\ calls[c].response.status = 400
  /\ \E d \in Calls :
       /\ calls[d].route = "add"
       /\ calls[d].response.status = 200
       /\ RowsOf(d) # {}

====
